---------------------------- MODULE Spec2Model ----------------------------
(***************************************************************************)
(* Model of sys/check_missing/check_missing.py (georust/geos): the script  *)
(* that compares the exported functions of geos_c.h with the bindings of   *)
(* src/functions.rs.                                                       *)
(*                                                                         *)
(* A Python string is modelled as a sequence of units.  A unit is either   *)
(* one punctuation character (" ", "*", ",", "(", ")", ";", ":") or a      *)
(* whole word or digraph ("const", "double", "GEOS_DLL", "[]", "->").      *)
(* Every string test of the script (endswith, startswith, split, strip,    *)
(* replace, in) falls on unit borders for the vocabulary used here, so the *)
(* operators below compute what the Python methods compute.                *)
(***************************************************************************)
EXTENDS Integers, Sequences, FiniteSets, TLC

(***************************************************************************)
(* Bounds of the model.                                                    *)
(***************************************************************************)
MaxLen == 4          \* units in a parameter text handed to get_c_args
MaxPtr == 3          \* pointer levels of a C type handed to convert_c_to_rust
MaxHeaderChunks == 2 \* declarations and other lines read from geos_c.h
MaxRustChunks == 2   \* declarations and other lines read from functions.rs
MaxArgs == 2         \* parameters of a signature handed to compare_rust_and_c_funcs

(***************************************************************************)
(* Python string methods on unit sequences.                                *)
(***************************************************************************)
SP    == " "
STAR  == "*"
ARR   == "[]"
COMMA == ","

Last(s) == s[Len(s)]

Front(s) == SubSeq(s, 1, Len(s) - 1)

DropLast(s, n) == SubSeq(s, 1, Len(s) - n)

DropFirst(s, n) == SubSeq(s, n + 1, Len(s))

StartsWith(s, p) == Len(p) <= Len(s) /\ SubSeq(s, 1, Len(p)) = p

EndsWith(s, p) == Len(p) <= Len(s) /\ SubSeq(s, Len(s) - Len(p) + 1, Len(s)) = p

\* F(v), with v evaluated once: the value of a Python local variable
Bind(v, F(_)) == CHOOSE r \in { F(x) : x \in { v } } : TRUE

\* the least index >= i at which p occurs in s, or 0
RECURSIVE FindFrom(_, _, _)
FindFrom(s, p, i) ==
    IF i + Len(p) - 1 > Len(s) THEN 0
    ELSE IF SubSeq(s, i, i + Len(p) - 1) = p THEN i
    ELSE FindFrom(s, p, i + 1)

Contains(s, p) == FindFrom(s, p, 1) # 0

RECURSIVE LStrip(_)
LStrip(s) == IF s # <<>> /\ Head(s) = SP THEN LStrip(Tail(s)) ELSE s

RECURSIVE RStrip(_)
RStrip(s) == IF s # <<>> /\ Last(s) = SP THEN RStrip(Front(s)) ELSE s

Strip(s) == RStrip(LStrip(s))

\* str.split(sep): never empty, keeps empty fields
RECURSIVE Split(_, _)
Split(s, sep) ==
    Bind(FindFrom(s, sep, 1), LAMBDA i :
        IF i = 0 THEN << s >>
        ELSE << SubSeq(s, 1, i - 1) >> \o Split(DropFirst(s, i + Len(sep) - 1), sep))

\* sep.join(list)
RECURSIVE Join(_, _)
Join(sep, l) ==
    IF l = <<>> THEN <<>>
    ELSE IF Len(l) = 1 THEN l[1]
    ELSE l[1] \o sep \o Join(sep, Tail(l))

\* str.replace(old, new), left to right, not overlapping
RECURSIVE Replace(_, _, _)
Replace(s, old, new) ==
    Bind(FindFrom(s, old, 1), LAMBDA i :
        IF i = 0 THEN s
        ELSE SubSeq(s, 1, i - 1) \o new \o Replace(DropFirst(s, i + Len(old) - 1), old, new))

\* [x for x in l if len(x) > 0]
RECURSIVE NonEmpty(_)
NonEmpty(l) ==
    IF l = <<>> THEN <<>>
    ELSE IF l[1] = <<>> THEN NonEmpty(Tail(l))
    ELSE << l[1] >> \o NonEmpty(Tail(l))

SeqsUpTo(S, n) == UNION { [1..k -> S] : k \in 0..n }

(***************************************************************************)
(* TO_IGNORE: a function name is a string of one unit.                     *)
(***************************************************************************)
TO_IGNORE == { << "initGEOS_r" >>, << "finishGEOS_r" >>, << "GEOSGeomFromWKT" >>,
               << "GEOSGeomFromWKT_r" >>, << "GEOSGeomToWKT" >>, << "GEOSGeomToWKT_r" >>,
               << "GEOSSingleSidedBuffer" >>, << "GEOSSingleSidedBuffer_r" >>,
               << "GEOSUnionCascaded" >>, << "GEOSUnionCascaded_r" >> }

(***************************************************************************)
(* get_c_args, one part of the comma-separated text (lines 20-34).         *)
(* The result is [err, arg, skip]: err when params.pop() is reached, where *)
(* params is already a str (line 25) and the call raises AttributeError;   *)
(* skip when the part is empty (line 21).                                  *)
(***************************************************************************)
RECURSIVE ArrayLoop(_, _)
ArrayLoop(params, ty_name) ==
    IF EndsWith(ty_name, << ARR >>)
    THEN ArrayLoop(params \o << SP, STAR, "const" >>, Strip(DropLast(ty_name, 1)))
    ELSE [params |-> params, ty_name |-> ty_name]

RECURSIVE StarLoop(_, _)
StarLoop(params, ty_name) ==
    IF StartsWith(ty_name, << STAR >>)
    THEN StarLoop(params \o << STAR >>, Tail(ty_name))
    ELSE [params |-> params, ty_name |-> ty_name]

\* lines 23-25: params.pop() is the last token, the rest is joined again
PopTypeName(part) ==
    Bind(Split(part, << SP >>), LAMBDA toks :
        [params |-> Join(<< SP >>, Front(toks)), ty_name |-> Last(toks)])

\* lines 29-30: params is a str by now, and params.pop() raises
\* lines 31-34 otherwise
AfterArrayLoop(a) ==
    IF Len(a.ty_name) = 0
    THEN [err |-> TRUE, skip |-> FALSE, arg |-> <<>>]
    ELSE Bind(StarLoop(a.params, a.ty_name), LAMBDA b :
             [err |-> FALSE, skip |-> FALSE,
              arg |-> Strip(Replace(b.params, << SP, STAR, SP, "const" >>,
                                    << SP, STAR, "const" >>))])

CArgOfPart(rawpart) ==
    Bind(Strip(rawpart), LAMBDA part :
        IF Len(part) = 0 THEN [err |-> FALSE, skip |-> TRUE, arg |-> <<>>]
        ELSE Bind(PopTypeName(part), LAMBDA t :
                 Bind(ArrayLoop(t.params, t.ty_name), LAMBDA a : AfterArrayLoop(a))))

RECURSIVE CArgsOfParts(_, _)
CArgsOfParts(parts, args) ==
    IF parts = <<>> THEN [err |-> FALSE, args |-> args]
    ELSE Bind(CArgOfPart(parts[1]), LAMBDA r :
             IF r.err THEN [err |-> TRUE, args |-> args]
             ELSE CArgsOfParts(Tail(parts), IF r.skip THEN args ELSE Append(args, r.arg)))

\* get_c_args(text, args): args extended in place, or AttributeError
get_c_args(text, args) == CArgsOfParts(Split(text, << COMMA >>), args)


(***************************************************************************)
(* convert_c_to_rust (lines 89-130), loop by loop.                         *)
(***************************************************************************)
PtrConst == << STAR, "const" >>

PtrMut == << STAR, "mut" >>

\* inline_conv.get(tok, tok), lines 90-96 and 128
inline_conv(tok) ==
    CASE tok = << "int" >>    -> << "c_int" >>
      [] tok = << "char" >>   -> << "c_char" >>
      [] tok = << "void" >>   -> << "c_void" >>
      [] tok = << "double" >> -> << "c_double" >>
      [] tok = << "float" >>  -> << "c_float" >>
      [] OTHER                -> tok

\* the keys of unsigned_inline_conv, lines 97-102
UnsignedKeys == { << "int" >>, << "char" >>, << "c_int" >>, << "c_char" >> }

unsigned_inline_conv(tok) ==
    IF tok \in { << "int" >>, << "c_int" >> } THEN << "c_uint" >> ELSE << "c_uchar" >>

\* lines 103-113: the tokens that are not `const`
RECURSIVE DropConstTokens(_)
DropConstTokens(parts) ==
    IF parts = <<>> THEN <<>>
    ELSE IF parts[1] = << "const" >> THEN DropConstTokens(Tail(parts))
    ELSE << parts[1] >> \o DropConstTokens(Tail(parts))

TypeParts(c_type) == Split(Strip(c_type), << SP >>)

\* is_const is set by a `const` token at position 0 only (lines 108-110)
IsConstOf(c_type) == TypeParts(c_type)[1] = << "const" >>

CompleteTypeOf(c_type) == DropConstTokens(TypeParts(c_type))

\* line 114: the guard of the first loop; complete_type[-1] needs a token
Loop1Guard(ct) == EndsWith(Last(ct), << STAR >>)

\* lines 115-116
Loop1Body(ct, isc) ==
    << IF isc THEN PtrConst ELSE PtrMut >>
        \o [ct EXCEPT ![Len(ct)] = Strip(DropLast(Last(ct), 1))]

\* line 117
Loop2Guard(ct) == EndsWith(Last(ct), PtrConst)

\* lines 118-120
Loop2Strip(ct) ==
    Bind(Strip(DropLast(Last(ct), 2)), LAMBDA t :
        IF Len(t) = 0 THEN Front(ct) ELSE [ct EXCEPT ![Len(ct)] = t])

\* line 121
Loop2Insert(ct) == << PtrConst >> \o ct

\* lines 122-129: [err, ct]; err is the IndexError or KeyError of line 126
RECURSIVE SubstPass(_, _)
SubstPass(ct, pos) ==
    IF pos > Len(ct) THEN [err |-> FALSE, ct |-> ct]
    ELSE IF ct[pos] = << "unsigned" >>
    THEN Bind(SubSeq(ct, 1, pos - 1) \o SubSeq(ct, pos + 1, Len(ct)), LAMBDA popped :
             IF pos > Len(popped) \/ popped[pos] \notin UnsignedKeys
             THEN [err |-> TRUE, ct |-> popped]
             ELSE SubstPass([popped EXCEPT ![pos] = unsigned_inline_conv(popped[pos])], pos + 1))
    ELSE SubstPass([ct EXCEPT ![pos] = inline_conv(ct[pos])], pos + 1)

\* line 130
JoinTokens(ct) == Join(<< SP >>, NonEmpty([i \in 1..Len(ct) |-> Strip(ct[i])]))


(***************************************************************************)
(* convert_c_to_rust as one call: [status, val] with status "ok", "crash"  *)
(* (IndexError or KeyError) or "loop".  The second loop runs forever       *)
(* exactly when one iteration leaves complete_type as it was, which is     *)
(* when every remaining token is the `*const` marker.                      *)
(***************************************************************************)
RECURSIVE RunLoop1(_, _)
RunLoop1(ct, isc) == IF Loop1Guard(ct) THEN RunLoop1(Loop1Body(ct, isc), isc) ELSE ct

RECURSIVE RunLoop2(_)
RunLoop2(ct) ==
    IF ~Loop2Guard(ct) THEN [loops |-> FALSE, ct |-> ct]
    ELSE Bind(Loop2Insert(Loop2Strip(ct)), LAMBDA next :
             IF next = ct THEN [loops |-> TRUE, ct |-> ct] ELSE RunLoop2(next))

\* lines 122-130
SubstAndJoinOf(ct) ==
    Bind(SubstPass(ct, 1), LAMBDA sp :
        IF sp.err THEN [status |-> "crash", val |-> <<>>]
        ELSE [status |-> "ok", val |-> JoinTokens(sp.ct)])

convert_c_to_rust(c_type) ==
    Bind(CompleteTypeOf(c_type), LAMBDA ct0 :
        IF ct0 = <<>> THEN [status |-> "crash", val |-> <<>>]
        ELSE Bind(RunLoop2(RunLoop1(ct0, IsConstOf(c_type))), LAMBDA l2 :
                 IF l2.loops THEN [status |-> "loop", val |-> <<>>]
                 ELSE SubstAndJoinOf(l2.ct)))

(***************************************************************************)
(* get_c_functions (lines 47-80) on the lines `content`, from line `pos`,  *)
(* extending the table `functions`.  [err, functions]: err is an exception *)
(* (IndexError of line 61 or 68, AttributeError of get_c_args).            *)
(***************************************************************************)
ExportMarker == << SP, "GEOS_DLL", SP >>

CloseMark == << ")", ";" >>

\* functions[name] = sig
Put(functions, name, sig) ==
    [n \in DOMAIN functions \cup { name } |-> IF n = name THEN sig ELSE functions[n]]

\* a scan that forgets line 177
DelKeepsEntry(functions, name) == functions

\* del functions[name]
Del(functions, name) == [n \in DOMAIN functions \ { name } |-> functions[n]]

\* lines 64-66: leading stars of the name move to the return type
RECURSIVE NameStars(_, _)
NameStars(ret_type, func_name) ==
    IF StartsWith(func_name, << STAR >>)
    THEN NameStars(ret_type \o << STAR >>, Tail(func_name))
    ELSE [ret_type |-> ret_type, func_name |-> func_name]

\* lines 71-75: [err, args, pos]
RECURSIVE CContinuation(_, _, _)
CContinuation(content, pos, args) ==
    IF pos > Len(content) THEN [err |-> FALSE, args |-> args, pos |-> pos]
    ELSE Bind(get_c_args(Split(Strip(content[pos]), CloseMark)[1], args), LAMBDA r :
             IF r.err THEN [err |-> TRUE, args |-> r.args, pos |-> pos]
             ELSE IF EndsWith(content[pos], CloseMark)
             THEN [err |-> FALSE, args |-> r.args, pos |-> pos]
             ELSE CContinuation(content, pos + 1, r.args))

\* a scan that forgets the deny-list test of line 77
RegisterEveryName(functions, func_name, args, ret_type) ==
    IF Len(func_name) > 0
    THEN Put(functions, func_name, [args |-> args, ret |-> ret_type])
    ELSE functions

\* lines 77-78
Register(functions, func_name, args, ret_type) ==
    IF Len(func_name) > 0 /\ func_name \notin TO_IGNORE
    THEN Put(functions, func_name, [args |-> args, ret |-> ret_type])
    ELSE functions

\* lines 67-75: the arguments of the declaration that starts on line pos
\* with the text arg_text after its parenthesis: [err, args, pos]
DeclarationArgs(content, pos, arg_text) ==
    Bind(get_c_args(arg_text, <<>>), LAMBDA first :
        IF first.err \/ EndsWith(arg_text, CloseMark)
        THEN [err |-> first.err, args |-> first.args, pos |-> pos]
        ELSE CContinuation(content, pos + 1, first.args))

\* lines 60-66: [err, ret_type, func_name, arg_text] of a line that holds
\* the export marker; err is the IndexError of line 61 or of line 68
DeclarationHead(line) ==
    Bind(Split(line, ExportMarker), LAMBDA parts :
        Bind(Split(parts[1], << "extern", SP >>), LAMBDA ext :
            Bind(Split(parts[2], << "(" >>), LAMBDA name_and_args :
                IF Len(ext) < 2 \/ Len(name_and_args) < 2
                THEN [err |-> TRUE, ret_type |-> <<>>, func_name |-> <<>>, arg_text |-> <<>>]
                ELSE Bind(NameStars(Strip(ext[2]), name_and_args[1]), LAMBDA ns :
                         [err |-> FALSE, ret_type |-> ns.ret_type,
                          func_name |-> ns.func_name, arg_text |-> name_and_args[2]]))))

RECURSIVE get_c_functions(_, _, _)
get_c_functions(content, pos, functions) ==
    IF pos > Len(content) THEN [err |-> FALSE, functions |-> functions]
    ELSE IF ~Contains(content[pos], ExportMarker)
    THEN get_c_functions(content, pos + 1, functions)
    ELSE Bind(DeclarationHead(content[pos]), LAMBDA h :
             IF h.err THEN [err |-> TRUE, functions |-> functions]
             ELSE Bind(DeclarationArgs(content, pos, h.arg_text), LAMBDA rest :
                      IF rest.err THEN [err |-> TRUE, functions |-> functions]
                      ELSE get_c_functions(content, rest.pos + 1,
                               Register(functions, Strip(h.func_name), rest.args, h.ret_type))))

(***************************************************************************)
(* get_rust_args (lines 37-44) and get_rust_ret_type (lines 83-86).        *)
(***************************************************************************)
RustArgOfPart(part) ==
    Bind(Tail(Split(part, << ":" >>)), LAMBDA params :
        Join(<< SP >>, NonEmpty([i \in 1..Len(params) |-> Strip(params[i])])))

RECURSIVE RustArgsOfParts(_, _)
RustArgsOfParts(parts, args) ==
    IF parts = <<>> THEN args
    ELSE IF Len(Strip(parts[1])) = 0 THEN RustArgsOfParts(Tail(parts), args)
    ELSE RustArgsOfParts(Tail(parts), Append(args, RustArgOfPart(Strip(parts[1]))))

get_rust_args(text, args) == RustArgsOfParts(Split(text, << COMMA >>), args)

Arrow == << ")", SP, "->", SP >>

get_rust_ret_type(text) ==
    IF ~Contains(text, Arrow) THEN <<>>
    ELSE Split(Split(text, Arrow)[2], << ";" >>)[1]

(***************************************************************************)
(* compare_rust_and_c_funcs (lines 133-145).                               *)
(* [status, ok, printed]: status "crash" or "loop" when a conversion does  *)
(* not return; printed holds "ret" and "params" for the two messages.      *)
(***************************************************************************)
\* line 135: the conversions of the list comprehension, in order
RECURSIVE ConvertAll(_, _)
ConvertAll(types, vals) ==
    IF types = <<>> THEN [status |-> "ok", vals |-> vals]
    ELSE Bind(convert_c_to_rust(types[1]), LAMBDA r :
             IF r.status # "ok" THEN [status |-> r.status, vals |-> vals]
             ELSE ConvertAll(Tail(types), Append(vals, r.val)))

\* lines 136-138
CFuncRetKeepsVoid(val) == val

\* lines 137-138
CFuncRet(val) == IF val = << "c_void" >> THEN <<>> ELSE val

\* lines 139-141
RetErrors(c_func_ret, ret_type) == IF c_func_ret # ret_type THEN 1 ELSE 0

\* lines 142-144
ParamErrors(c_func_args, rust_args) ==
    IF c_func_args # Join(<< COMMA >>, rust_args) THEN 1 ELSE 0

\* line 145
CompareResult(errors) == errors = 0

\* lines 134 and 139-145, from the two error counts
Verdict(e1, e2) ==
    [status |-> "ok",
     ok |-> CompareResult(e1 + e2),
     printed |-> (IF e1 = 1 THEN { "ret" } ELSE {}) \cup (IF e2 = 1 THEN { "params" } ELSE {})]

compare_rust_and_c_funcs(c_sig, rust_args, ret_type) ==
    Bind(ConvertAll(c_sig.args, <<>>), LAMBDA ca :
        IF ca.status # "ok" THEN [status |-> ca.status, ok |-> FALSE, printed |-> {}]
        ELSE Bind(convert_c_to_rust(c_sig.ret), LAMBDA cr :
                 IF cr.status # "ok" THEN [status |-> cr.status, ok |-> FALSE, printed |-> {}]
                 ELSE Verdict(RetErrors(CFuncRet(cr.val), ret_type),
                              ParamErrors(Join(<< COMMA >>, ca.vals), rust_args))))

(***************************************************************************)
(* get_rust_functions (lines 148-181) on the lines `content`, from line    *)
(* `pos`.  st = [status, pos, c_func, functions, errors, reported]: c_func *)
(* is the table drained by the scan, functions the extra names, errors the *)
(* count of failed comparisons, reported the names a message was printed   *)
(* for.  status "crash": IndexError of line 166 or 174, or a conversion's. *)
(***************************************************************************)
FnMarker == << SP, "fn", SP >>

RustLineEnds(line) == EndsWith(line, CloseMark) \/ Contains(line, Arrow)

\* lines 168-173: [args, pos]
RECURSIVE RustContinuation(_, _, _)
RustContinuation(content, pos, args) ==
    IF pos > Len(content) THEN [args |-> args, pos |-> pos]
    ELSE Bind(get_rust_args(Split(Strip(content[pos]), << ")" >>)[1], args), LAMBDA a :
             IF RustLineEnds(content[pos]) THEN [args |-> a, pos |-> pos]
             ELSE RustContinuation(content, pos + 1, a))

\* lines 165-173: the arguments of the declaration that starts on line pos
RustDeclarationArgs(content, pos, parts) ==
    Bind(get_rust_args(Strip(Split(parts[2], << ")" >>)[1]), <<>>), LAMBDA first :
        IF RustLineEnds(content[pos])
        THEN [args |-> first, pos |-> pos]
        ELSE RustContinuation(content, pos + 1, first))

\* lines 175-177: the error count, and the entry deleted from the table
AfterCompare(st, func_name, cmp, pos) ==
    [status    |-> "ok",
     pos       |-> pos,
     c_func    |-> Del(st.c_func, func_name),
     functions |-> st.functions,
     errors    |-> IF cmp.ok THEN st.errors ELSE st.errors + 1,
     reported  |-> IF cmp.printed # {} THEN st.reported \cup { func_name } ELSE st.reported]

\* lines 164-177, for a name of the table
KnownFunction(content, pos, parts, func_name, st) ==
    IF Len(parts) < 2 THEN [st EXCEPT !.status = "crash"]
    ELSE Bind(RustDeclarationArgs(content, pos, parts), LAMBDA rest :
             IF rest.pos > Len(content) THEN [st EXCEPT !.status = "crash"]
             ELSE Bind(compare_rust_and_c_funcs(st.c_func[func_name], rest.args,
                                                get_rust_ret_type(content[rest.pos])),
                       LAMBDA cmp :
                           IF cmp.status # "ok" THEN [st EXCEPT !.status = cmp.status]
                           ELSE AfterCompare(st, func_name, cmp, rest.pos)))

\* a scan that keeps only the last unknown name
UnknownFunctionReplacesSet(func_name, st) ==
    IF Len(func_name) > 0
    THEN [st EXCEPT !.functions = { func_name }]
    ELSE st

\* lines 178-179
UnknownFunction(func_name, st) ==
    IF Len(func_name) > 0
    THEN [st EXCEPT !.functions = st.functions \cup { func_name }]
    ELSE st

\* lines 162-179: the line at pos holds the declaration marker
RustDeclaration(content, pos, parts, st) ==
    Bind(Strip(parts[1]), LAMBDA func_name :
        IF func_name \in DOMAIN st.c_func
        THEN KnownFunction(content, pos, parts, func_name, st)
        ELSE UnknownFunction(func_name, [st EXCEPT !.pos = pos]))

RECURSIVE get_rust_functions(_, _, _)
get_rust_functions(content, pos, st) ==
    IF pos > Len(content) \/ st.status # "ok" THEN st
    ELSE IF ~Contains(content[pos], FnMarker)
    THEN get_rust_functions(content, pos + 1, st)
    ELSE Bind(RustDeclaration(content, pos, Split(Split(content[pos], FnMarker)[2], << "(" >>), st),
              LAMBDA k : get_rust_functions(content, k.pos + 1, k))

(***************************************************************************)
(* Lines 188-205: the report and the exit status.                          *)
(***************************************************************************)
\* the names of the model in the order of list.sort()
AlphabeticalNames == << << "GEOSArea" >>, << "GEOSBuffer" >>, << "GEOSGeomToWKT" >>,
                        << "GEOSRustOnly" >> >>

InNames(S, n) == n \in S

\* x = list of the names; x.sort()
SortNames(S) == SelectSeq(AlphabeticalNames, LAMBDA n : InNames(S, n))

\* an exit test that forgets the comparator's verdict
ExitStatusIgnoringMismatches(errored_, table, extra) ==
    IF Cardinality(DOMAIN table) > 0 \/ Cardinality(extra) > 0 THEN 1 ELSE 0

\* lines 204-205: sys.exit(1), or the end of the script
ExitStatus(errored_, table, extra) ==
    IF errored_ \/ Cardinality(DOMAIN table) > 0 \/ Cardinality(extra) > 0 THEN 1 ELSE 0

(***************************************************************************)
(* State.                                                                  *)
(*   cpc .. err : one run of get_c_args followed by convert_c_to_rust on   *)
(*                each argument it produced, or of convert_c_to_rust on a  *)
(*                type string handed to it directly (a return type).       *)
(*   pc .. exitStatus : one run of the script.  c_func is the table of     *)
(*                get_c_functions, drained by get_rust_functions; r_func,  *)
(*                errors, errored are those of lines 149-151 and 185;      *)
(*                reported holds the names a mismatch was printed for;     *)
(*                missingOut and extraOut are the two printed lists.       *)
(*   hdrRead .. rsDeclared : what the run has read so far: the number of   *)
(*                declarations or other lines of each file, and the names  *)
(*                the files declared (as written in the files).            *)
(*   cmpPc .. cmpPrinted : one call of compare_rust_and_c_funcs.           *)
(***************************************************************************)
VARIABLES cpc, mode, text, args, idx, c_type, is_const, complete_type, results, err,
          pc, c_func, r_func, errors, errored, reported, missingOut, extraOut, exitStatus,
          hdrRead, rsRead, hdrDeclared, rsDeclared,
          cmpPc, cmpC, cmpRustArgs, cmpRustRet, cmpOk, cmpPrinted

convVars == << cpc, mode, text, args, idx, c_type, is_const, complete_type, results, err >>

scanVars == << pc, c_func, r_func, errors, errored, reported, missingOut, extraOut,
               exitStatus, hdrRead, rsRead, hdrDeclared, rsDeclared >>

cmpVars == << cmpPc, cmpC, cmpRustArgs, cmpRustRet, cmpOk, cmpPrinted >>

vars == << convVars, scanVars, cmpVars >>

EmptyTable == [n \in {} |-> 0]

\* the variables of a run that is not the one under study
ConvIdle ==
    /\ cpc = "idle" /\ mode = "none" /\ text = <<>> /\ args = <<>> /\ idx = 0
    /\ c_type = <<>> /\ is_const = FALSE /\ complete_type = <<>> /\ results = <<>>
    /\ err = "none"

ScanIdle ==
    /\ pc = "idle" /\ c_func = EmptyTable /\ r_func = {} /\ errors = 0 /\ errored = FALSE
    /\ reported = {} /\ missingOut = <<>> /\ extraOut = <<>> /\ exitStatus = -1
    /\ hdrRead = 0 /\ rsRead = 0 /\ hdrDeclared = {} /\ rsDeclared = {}

CmpIdle ==
    /\ cmpPc = "idle" /\ cmpC = [args |-> <<>>, ret |-> <<>>] /\ cmpRustArgs = <<>>
    /\ cmpRustRet = <<>> /\ cmpOk = FALSE /\ cmpPrinted = {}

(***************************************************************************)
(* Inputs of the conversion runs.                                          *)
(***************************************************************************)
ParamUnits == { SP, STAR, ARR, COMMA, "const", "unsigned", "double", "x" }

ParamTexts == SeqsUpTo(ParamUnits, MaxLen)

Bases == { << "int" >>, << "char" >>, << "void" >>, << "double" >>, << "float" >>,
           << "T" >>, << "unsigned", SP, "int" >>, << "unsigned", SP, "char" >> }

RECURSIVE Repeat(_, _)
Repeat(s, n) == IF n = 0 THEN <<>> ELSE s \o Repeat(s, n - 1)

\* `int**`, `int **`, `int * *`: the ways of writing k pointer levels
Layouts == { "joined", "spaced", "apart" }

Stars(k, layout) ==
    IF k = 0 THEN <<>>
    ELSE CASE layout = "joined" -> Repeat(<< STAR >>, k)
           [] layout = "spaced" -> << SP >> \o Repeat(<< STAR >>, k)
           [] layout = "apart"  -> Repeat(<< SP, STAR >>, k)

PtrType(isc, base, k, layout) ==
    (IF isc THEN << "const", SP >> ELSE <<>>) \o base \o Stars(k, layout)

PtrTypes == { PtrType(isc, base, k, layout) :
                isc \in BOOLEAN, base \in Bases, k \in 0..MaxPtr, layout \in Layouts }

ArrayForm(base) == base \o << ARR >>

ConstPtrForm(base) == base \o << SP, STAR, "const" >>

DirectTypes == PtrTypes \cup { ArrayForm(b) : b \in Bases } \cup { ConstPtrForm(b) : b \in Bases }

InitConv ==
    /\ mode \in { "param", "type" }
    /\ \/ mode = "param" /\ text \in ParamTexts /\ c_type = <<>> /\ cpc = "start"
       \/ mode = "type" /\ text = <<>> /\ c_type \in DirectTypes /\ cpc = "conv"
    /\ args = <<>>
    /\ idx = 0
    /\ is_const = FALSE
    /\ complete_type = <<>>
    /\ results = <<>>
    /\ err = "none"
    /\ ScanIdle
    /\ CmpIdle

\* get_c_args(text, args) on a fresh list
CallGetCArgs ==
    /\ cpc = "start"
    /\ \E r \in { get_c_args(text, <<>>) } :
           IF r.err
           THEN /\ cpc' = "crashed"
                /\ err' = "AttributeError"
                /\ UNCHANGED << args, idx, c_type >>
           ELSE /\ args' = r.args
                /\ err' = err
                /\ IF r.args = <<>>
                   THEN cpc' = "done" /\ UNCHANGED << idx, c_type >>
                   ELSE cpc' = "conv" /\ idx' = 1 /\ c_type' = r.args[1]
    /\ UNCHANGED << mode, text, is_const, complete_type, results, scanVars, cmpVars >>

\* lines 103-113
Tokenize ==
    /\ cpc = "conv"
    /\ is_const' = IsConstOf(c_type)
    /\ complete_type' = CompleteTypeOf(c_type)
    /\ cpc' = "loop1"
    /\ UNCHANGED << mode, text, args, idx, c_type, results, err, scanVars, cmpVars >>

\* line 114 on an empty list: IndexError
Loop1Crash ==
    /\ cpc = "loop1"
    /\ complete_type = <<>>
    /\ cpc' = "crashed"
    /\ err' = "IndexError"
    /\ UNCHANGED << mode, text, args, idx, c_type, is_const, complete_type, results, scanVars, cmpVars >>

\* lines 114-116, one iteration
Loop1Iter ==
    /\ cpc = "loop1"
    /\ complete_type # <<>>
    /\ Loop1Guard(complete_type)
    /\ complete_type' = Loop1Body(complete_type, is_const)
    /\ UNCHANGED << cpc, mode, text, args, idx, c_type, is_const, results, err, scanVars, cmpVars >>

Loop1Exit ==
    /\ cpc = "loop1"
    /\ complete_type # <<>>
    /\ ~Loop1Guard(complete_type)
    /\ cpc' = "loop2"
    /\ UNCHANGED << mode, text, args, idx, c_type, is_const, complete_type, results, err, scanVars, cmpVars >>

\* lines 117-120, the first half of one iteration
Loop2StripStep ==
    /\ cpc = "loop2"
    /\ Loop2Guard(complete_type)
    /\ complete_type' = Loop2Strip(complete_type)
    /\ cpc' = "loop2insert"
    /\ UNCHANGED << mode, text, args, idx, c_type, is_const, results, err, scanVars, cmpVars >>

\* line 121, the second half
Loop2InsertStep ==
    /\ cpc = "loop2insert"
    /\ complete_type' = Loop2Insert(complete_type)
    /\ cpc' = "loop2"
    /\ UNCHANGED << mode, text, args, idx, c_type, is_const, results, err, scanVars, cmpVars >>

Loop2Exit ==
    /\ cpc = "loop2"
    /\ ~Loop2Guard(complete_type)
    /\ cpc' = "subst"
    /\ UNCHANGED << mode, text, args, idx, c_type, is_const, complete_type, results, err, scanVars, cmpVars >>

\* lines 122-130, then the next argument of the list
SubstAndJoin ==
    /\ cpc = "subst"
    /\ \E sp \in { SubstPass(complete_type, 1) } :
           IF sp.err
           THEN /\ cpc' = "crashed"
                /\ err' = "LookupError"
                /\ complete_type' = sp.ct
                /\ UNCHANGED << results, idx, c_type >>
           ELSE /\ complete_type' = sp.ct
                /\ results' = Append(results, JoinTokens(sp.ct))
                /\ err' = err
                /\ IF mode = "param" /\ idx < Len(args)
                   THEN cpc' = "conv" /\ idx' = idx + 1 /\ c_type' = args[idx + 1]
                   ELSE cpc' = "done" /\ UNCHANGED << idx, c_type >>
    /\ UNCHANGED << mode, text, args, is_const, scanVars, cmpVars >>

\* a step of the two pointer-peeling loops of convert_c_to_rust
LoopStep ==
    \/ Loop1Crash
    \/ Loop1Iter
    \/ Loop1Exit
    \/ Loop2StripStep
    \/ Loop2InsertStep
    \/ Loop2Exit

NextConv ==
    \/ CallGetCArgs
    \/ Tokenize
    \/ LoopStep
    \/ SubstAndJoin

\* the interpreter keeps running a loop it has entered: a loop step that
\* stays possible is taken
SpecConv == InitConv /\ [][NextConv]_vars /\ WF_vars(LoopStep)

ConvReturned == cpc = "done"

ConvEnded == cpc \in { "done", "crashed" }

\* the operator and the step-by-step run agree on every returned call
ConvAgree ==
    (ConvReturned /\ mode = "type") =>
        /\ convert_c_to_rust(c_type).status = "ok"
        /\ convert_c_to_rust(c_type).val = results[1]



(***************************************************************************)
(* The texts of a run of the script.  The two files are read one chunk at  *)
(* a time: a chunk is one declaration (on one line, or continued over the  *)
(* following lines up to its closing line) or one line that declares       *)
(* nothing.  Every declaration is closed before the next one starts, so    *)
(* one chunk is what one iteration of the outer loop of get_c_functions    *)
(* or get_rust_functions consumes.                                         *)
(***************************************************************************)
Area == << "GEOSArea" >>

Buffer == << "GEOSBuffer" >>

ToWKT == << "GEOSGeomToWKT" >>    \* on the deny-list

RustOnly == << "GEOSRustOnly" >>

HeaderNames == { Area, Buffer, ToWKT }

RustNames == { Area, Buffer, ToWKT, RustOnly, <<>> }

\* C signatures: the text before the export marker, the stars written
\* before the name, the parameters
CSigs ==
    { [ret |-> << "void" >>, stars |-> <<>>,
       params |-> << << "const", SP, "double", SP, STAR, SP, "a" >> >>],
      [ret |-> << "int" >>, stars |-> <<>>,
       params |-> << << "double", SP, STAR, "a" >>, << "unsigned", SP, "int", SP, "n" >> >>],
      [ret |-> << "const", SP, "char" >>, stars |-> << STAR >>, params |-> <<>>],
      [ret |-> << "void" >>, stars |-> <<>>,
       params |-> << << "double", SP, "v", ARR >>, << "int", SP, "n" >> >>],
      [ret |-> << "void" >>, stars |-> <<>>,
       params |-> << << "double", ARR >>, << "int", SP, "n" >> >>],
      [ret |-> << "void" >>, stars |-> <<>>,
       params |-> << << "double", SP, ARR >>, << "int", SP, "n" >> >>] }

HeaderLines(sig, name, split) ==
    LET head == << "extern", SP >> \o sig.ret \o ExportMarker \o sig.stars \o name \o << "(" >>
    IN  IF ~split
        THEN << head \o Join(<< COMMA, SP >>, sig.params) \o CloseMark >>
        ELSE IF sig.params = <<>> THEN << head, << SP, SP >> \o CloseMark >>
        ELSE << head \o sig.params[1] \o << COMMA >>,
                << SP, SP >> \o Join(<< COMMA, SP >>, Tail(sig.params)) \o CloseMark >>

HeaderOtherLine == << "/*", SP, "exported", SP, "functions", SP, "*/" >>

\* binding signatures: the parameters and the return type (empty: none)
RustSigs ==
    { [params |-> << << "a", ":", SP, STAR, "const", SP, "c_double" >> >>, ret |-> <<>>],
      [params |-> << << "a", ":", SP, STAR, "mut", SP, "c_double" >>,
                     << "n", ":", SP, "c_uint" >> >>, ret |-> << "c_int" >>],
      [params |-> <<>>, ret |-> << STAR, "const", SP, "c_char" >>],
      [params |-> << << "v", ":", SP, STAR, "const", SP, "c_double" >>,
                     << "n", ":", SP, "c_int" >> >>, ret |-> <<>>],
      [params |-> << << "a", ":", SP, STAR, "mut", SP, "c_double" >> >>, ret |-> <<>>],
      [params |-> << << "a", ":", SP, STAR, "mut", SP, "c_double" >> >>, ret |-> << "c_int" >>] }

\* the end of a binding declaration: `);` or `) -> ret;`
RustTail(ret) == IF ret = <<>> THEN CloseMark ELSE Arrow \o ret \o << ";" >>

RustLines(sig, name, split) ==
    LET head == << SP, SP, "pub", SP, "fn", SP >> \o name \o << "(" >>
        tail == RustTail(sig.ret)
    IN  IF ~split
        THEN << head \o Join(<< COMMA, SP >>, sig.params) \o tail >>
        ELSE << head >>
                \o [i \in 1..Len(sig.params) |-> << SP, SP, SP, SP >> \o sig.params[i] \o << COMMA >>]
                \o << << SP, SP >> \o tail >>

RustOtherLine == << "extern", SP, "\"C\"", SP, "{" >>

(***************************************************************************)
(* One run of the script (lines 184-205).                                  *)
(***************************************************************************)
Init ==
    /\ pc = "header"
    /\ c_func = EmptyTable
    /\ r_func = {}
    /\ errors = 0
    /\ errored = FALSE
    /\ reported = {}
    /\ missingOut = <<>>
    /\ extraOut = <<>>
    /\ exitStatus = -1
    /\ hdrRead = 0
    /\ rsRead = 0
    /\ hdrDeclared = {}
    /\ rsDeclared = {}
    /\ ConvIdle
    /\ CmpIdle

\* get_c_functions over the lines of one chunk
HeaderChunk(lines, declared) ==
    /\ pc = "header"
    /\ hdrRead < MaxHeaderChunks
    /\ hdrRead' = hdrRead + 1
    /\ hdrDeclared' = hdrDeclared \cup declared
    /\ \E r \in { get_c_functions(lines, 1, c_func) } :
           IF r.err
           THEN pc' = "crashed" /\ exitStatus' = 1 /\ UNCHANGED c_func
           ELSE c_func' = r.functions /\ UNCHANGED << pc, exitStatus >>
    /\ UNCHANGED << r_func, errors, errored, reported, missingOut, extraOut, rsRead,
                    rsDeclared, convVars, cmpVars >>

ReadHeaderDeclaration ==
    \E sig \in CSigs, name \in HeaderNames, split \in BOOLEAN :
        HeaderChunk(HeaderLines(sig, name, split), { name })

ReadHeaderOther == HeaderChunk(<< HeaderOtherLine >>, {})

\* line 80 and line 184: the table is returned at the end of the header
EndOfHeader ==
    /\ pc = "header"
    /\ pc' = "rust"
    /\ UNCHANGED << c_func, r_func, errors, errored, reported, missingOut, extraOut,
                    exitStatus, hdrRead, rsRead, hdrDeclared, rsDeclared, convVars, cmpVars >>

\* get_rust_functions over the lines of one chunk
RustChunk(lines, declared) ==
    /\ pc = "rust"
    /\ rsRead < MaxRustChunks
    /\ rsRead' = rsRead + 1
    /\ rsDeclared' = rsDeclared \cup declared
    /\ \E st \in { get_rust_functions(lines, 1,
                        [status |-> "ok", pos |-> 0, c_func |-> c_func, functions |-> r_func,
                         errors |-> errors, reported |-> reported]) } :
           IF st.status # "ok"
           THEN /\ pc' = (IF st.status = "loop" THEN "hung" ELSE "crashed")
                /\ exitStatus' = (IF st.status = "loop" THEN exitStatus ELSE 1)
                /\ UNCHANGED << c_func, r_func, errors, reported >>
           ELSE /\ c_func' = st.c_func
                /\ r_func' = st.functions
                /\ errors' = st.errors
                /\ reported' = st.reported
                /\ UNCHANGED << pc, exitStatus >>
    /\ UNCHANGED << errored, missingOut, extraOut, hdrRead, hdrDeclared, convVars, cmpVars >>

ReadRustDeclaration ==
    \E sig \in RustSigs, name \in RustNames, split \in BOOLEAN :
        RustChunk(RustLines(sig, name, split), { name } \ { <<>> })

ReadRustOther == RustChunk(<< RustOtherLine >>, {})

\* line 181 and line 185: (functions, errors != 0) is returned
EndOfRust ==
    /\ pc = "rust"
    /\ errored' = (errors # 0)
    /\ pc' = "report"
    /\ UNCHANGED << c_func, r_func, errors, reported, missingOut, extraOut, exitStatus,
                    hdrRead, rsRead, hdrDeclared, rsDeclared, convVars, cmpVars >>

\* lines 188-205
Report ==
    /\ pc = "report"
    /\ missingOut' = SortNames(DOMAIN c_func)
    /\ extraOut' = SortNames(r_func)
    /\ exitStatus' = ExitStatus(errored, c_func, r_func)
    /\ pc' = "done"
    /\ UNCHANGED << c_func, r_func, errors, errored, reported, hdrRead, rsRead,
                    hdrDeclared, rsDeclared, convVars, cmpVars >>

Next ==
    \/ ReadHeaderDeclaration
    \/ ReadHeaderOther
    \/ EndOfHeader
    \/ ReadRustDeclaration
    \/ ReadRustOther
    \/ EndOfRust
    \/ Report

Spec == Init /\ [][Next]_vars

(***************************************************************************)
(* One call of compare_rust_and_c_funcs, as line 175 makes it: on an entry *)
(* of the table, the argument list of the binding and the return type that *)
(* get_rust_ret_type reads in the closing line of the binding.             *)
(***************************************************************************)
\* argument types as get_c_args leaves them; the last one makes the
\* conversion loop
CmpCArgTypes ==
    { << "const", SP, "double", SP, STAR >>, << "double", STAR >>, << "int" >>,
      << STAR, "const" >> }

\* return types as lines 61-66 leave them
CmpCRetTypes ==
    { << "void" >>, << "int" >>, << "double" >>, << "const", SP, "char", STAR >> }

CmpRustArgTypes ==
    { << STAR, "const", SP, "c_double" >>, << STAR, "mut", SP, "c_double" >>, << "c_int" >> }

\* the return annotation of the binding; empty: none
CmpRustRetTypes ==
    { <<>>, << "c_int" >>, << "c_double" >>, << "c_void" >>,
      << STAR, "const", SP, "c_char" >> }

InitCmp ==
    /\ cmpPc = "call"
    /\ cmpC \in [args : SeqsUpTo(CmpCArgTypes, MaxArgs), ret : CmpCRetTypes]
    /\ cmpRustArgs \in SeqsUpTo(CmpRustArgTypes, MaxArgs)
    /\ cmpRustRet \in CmpRustRetTypes
    /\ cmpOk = FALSE
    /\ cmpPrinted = {}
    /\ ConvIdle
    /\ ScanIdle

\* lines 174-175
Compare ==
    /\ cmpPc = "call"
    /\ \E r \in { compare_rust_and_c_funcs(cmpC, cmpRustArgs,
                                            get_rust_ret_type(RustTail(cmpRustRet))) } :
           IF r.status = "ok"
           THEN cmpPc' = "done" /\ cmpOk' = r.ok /\ cmpPrinted' = r.printed
           ELSE /\ cmpPc' = (IF r.status = "loop" THEN "hung" ELSE "crashed")
                /\ UNCHANGED << cmpOk, cmpPrinted >>
    /\ UNCHANGED << cmpC, cmpRustArgs, cmpRustRet, convVars, scanVars >>

NextCmp == Compare

SpecCmp == InitCmp /\ [][NextCmp]_vars

(***************************************************************************)
(* Claims about a run of the script, under Spec.                           *)
(***************************************************************************)
Range(seq) == { seq[i] : i \in DOMAIN seq }

\* the place of a name in the alphabet of names
Rank(n) == CHOOSE i \in DOMAIN AlphabeticalNames : AlphabeticalNames[i] = n

IsSorted(seq) == \A i, j \in DOMAIN seq : i < j => Rank(seq[i]) < Rank(seq[j])

Completed == pc = "done"

\* C1: on a run that completes, the exit status is 0 if and only if the
\* comparator printed no mismatch for any function, the missing-bindings
\* list is empty and the extra-bindings list is empty; it is 1 otherwise.
C1_ExitStatus ==
    Completed =>
        /\ exitStatus \in { 0, 1 }
        /\ exitStatus = 0 <=> (reported = {} /\ missingOut = <<>> /\ extraOut = <<>>)

\* header and binding both declare GEOSArea, with differing const-ness of
\* the parameter: a mismatch is printed, both lists are empty, exit status 1
C1_ConstnessMismatchRun ==
    /\ Completed
    /\ hdrDeclared = { Area }
    /\ rsDeclared = { Area }
    /\ reported = { Area }
    /\ missingOut = <<>>
    /\ extraOut = <<>>
    /\ exitStatus = 1

\* C2: at every point of the run the table of C signatures has no
\* deny-listed key, and no deny-listed name is in the missing-bindings list.
C2_DenyListNeverMissing ==
    \A n \in TO_IGNORE : n \notin DOMAIN c_func /\ n \notin Range(missingOut)

\* the header declares a deny-listed name, no binding declares it, and the
\* run completes
C2_DenyListedUnbound ==
    /\ Completed
    /\ ToWKT \in hdrDeclared
    /\ ToWKT \notin rsDeclared

\* C3: after the two scans the missing-bindings list holds exactly the
\* names the header declares, outside the deny-list, that the binding text
\* does not declare; it is printed in sorted order, once each, and a
\* non-empty list gives exit status 1.
C3_MissingList ==
    Completed =>
        /\ Range(missingOut) = { n \in hdrDeclared : n \notin TO_IGNORE /\ n \notin rsDeclared }
        /\ Len(missingOut) = Cardinality(Range(missingOut))
        /\ IsSorted(missingOut)
        /\ missingOut # <<>> => exitStatus = 1

\* a header that declares two names, a binding text that declares neither
C3_TwoMissing ==
    /\ Completed
    /\ hdrDeclared = { Area, Buffer }
    /\ rsDeclared \cap hdrDeclared = {}
    /\ missingOut = << Area, Buffer >>
    /\ exitStatus = 1

\* C4: a name declared in both texts is in neither list; a name declared in
\* the binding text only is in the extra list; the extra list holds only
\* names of the binding text that the header does not declare.
C4_BothNeitherBindingOnlyExtra ==
    Completed =>
        /\ \A f \in hdrDeclared \cap rsDeclared :
               f \notin Range(missingOut) /\ f \notin Range(extraOut)
        /\ \A g \in rsDeclared \ hdrDeclared : g \in Range(extraOut)
        /\ Range(extraOut) \subseteq rsDeclared \ hdrDeclared

\* the table keeps its entries unchanged or loses them
TableShrinks ==
    /\ DOMAIN c_func' \subseteq DOMAIN c_func
    /\ \A n \in DOMAIN c_func' : c_func'[n] = c_func[n]

\* C10: during and after the scan of the binding text the extra set and the
\* keys of the table are disjoint, so no name is in both printed lists;
\* every step of the scan only removes entries of the table and only adds
\* names to the extra set.
C10_DisjointShrinkGrow ==
    /\ [](pc \in { "rust", "report", "done" } =>
            /\ r_func \cap DOMAIN c_func = {}
            /\ Range(missingOut) \cap Range(extraOut) = {})
    /\ [][pc = "rust" => (TableShrinks /\ r_func \subseteq r_func')]_vars

\* the scan has removed an entry, kept another and found an extra name
C10_RemovedKeptAndExtra ==
    /\ pc = "rust"
    /\ DOMAIN c_func = { Buffer }
    /\ hdrDeclared = { Area, Buffer }
    /\ r_func = { RustOnly }

(***************************************************************************)
(* Claim about compare_rust_and_c_funcs, under SpecCmp.                    *)
(***************************************************************************)
\* the translated return type, a translated void replaced by the empty text
CmpExpectedRet ==
    IF convert_c_to_rust(cmpC.ret).val = << "c_void" >> THEN <<>>
    ELSE convert_c_to_rust(cmpC.ret).val

CmpExpectedArgs ==
    Join(<< COMMA >>, [i \in DOMAIN cmpC.args |-> convert_c_to_rust(cmpC.args[i]).val])

\* C5: a call that returns reports success if and only if the translated
\* return type (void: empty) equals the return type of the binding and the
\* comma-joined translated parameters equal the comma-joined parameters of
\* the binding; each of the two mismatches is printed exactly when it holds.
C5_CompareVerdict ==
    cmpPc = "done" =>
        /\ cmpOk <=> (CmpExpectedRet = cmpRustRet
                        /\ CmpExpectedArgs = Join(<< COMMA >>, cmpRustArgs))
        /\ "ret" \in cmpPrinted <=> CmpExpectedRet # cmpRustRet
        /\ "params" \in cmpPrinted <=> CmpExpectedArgs # Join(<< COMMA >>, cmpRustArgs)

\* a C function returning void against a binding without return type
C5_VoidAgainstNoReturnType ==
    /\ cmpPc = "done"
    /\ cmpC.ret = << "void" >>
    /\ cmpRustRet = <<>>
    /\ Len(cmpC.args) = 2
    /\ cmpOk
    /\ cmpPrinted = {}

(***************************************************************************)
(* Claims about get_c_args and convert_c_to_rust, under SpecConv.          *)
(***************************************************************************)
\* the target primitive of a base type of the vocabulary
BaseTarget(base) ==
    CASE base = << "int" >>                -> << "c_int" >>
      [] base = << "char" >>               -> << "c_char" >>
      [] base = << "void" >>               -> << "c_void" >>
      [] base = << "double" >>             -> << "c_double" >>
      [] base = << "float" >>              -> << "c_float" >>
      [] base = << "unsigned", SP, "int" >>  -> << "c_uint" >>
      [] base = << "unsigned", SP, "char" >> -> << "c_uchar" >>
      [] OTHER                             -> base

\* k pointer prefixes, then the translated base type
ExpectedPtr(isc, base, k) ==
    Join(<< SP >>, [i \in 1..k |-> IF isc THEN PtrConst ELSE PtrMut] \o << BaseTarget(base) >>)

\* C6: translating the array form `B[]` gives the same canonical result as
\* translating `B *const`, for every base type B of the vocabulary.
C6_ArrayFormEqualsConstPtr ==
    \A b \in Bases :
        (ConvReturned /\ mode = "type" /\ c_type = ArrayForm(b))
            => results[1] = convert_c_to_rust(ConstPtrForm(b)).val

\* C7: a type made of an optional leading const, a base type and k >= 1
\* pointer levels written as `*` translates to exactly k pointer prefixes
\* (`*const` under a leading const, `*mut` otherwise) and the translated base.
C7_PointerLevels ==
    \A isc \in BOOLEAN, b \in Bases, k \in 1..MaxPtr, layout \in Layouts :
        (ConvReturned /\ mode = "type" /\ c_type = PtrType(isc, b, k, layout))
            => results[1] = ExpectedPtr(isc, b, k)

\* C7 holds when the k stars are written without blanks between them
C7_PointerLevelsAdjacentStars ==
    \A isc \in BOOLEAN, b \in Bases, k \in 1..MaxPtr, layout \in { "joined", "spaced" } :
        (ConvReturned /\ mode = "type" /\ c_type = PtrType(isc, b, k, layout))
            => results[1] = ExpectedPtr(isc, b, k)

\* a parameter whose last blank-separated token is the bare array suffix
AnonymousArray(t) ==
    /\ ~Contains(t, << COMMA >>)
    /\ Strip(t) # <<>>
    /\ Len(Split(Strip(t), << SP >>)) >= 2
    /\ Last(Split(Strip(t), << SP >>)) = << ARR >>

\* C8: for a parameter whose last token is purely `[]`, get_c_args appends
\* one type string to the argument list and raises no error.
C8_AnonymousArrayAccepted ==
    (mode = "param" /\ cpc # "start" /\ AnonymousArray(text))
        => (err = "none" /\ Len(args) = 1)

\* C9: on every type string get_c_args produces and on every return type,
\* the two pointer-peeling loops of convert_c_to_rust, once entered, are
\* left: by the exit of the second loop or by an exception.
C9_ConvertTerminates == (cpc = "loop1") ~> (cpc \in { "subst", "crashed" })

=============================================================================
